---- MODULE Spec2Model ----
(***************************************************************************)
(* Model of fileserver.py: the authentication decorators, the filename     *)
(* sanitizer and the storage handlers (upload, delete, rename, info,       *)
(* download, list) over one storage directory.                             *)
(*                                                                         *)
(* A filename is a sequence of one-character strings.  The storage         *)
(* directory is a function from entry names to entries: a regular file     *)
(* with content, a directory, or a symbolic link to a path outside the     *)
(* storage directory.  Every request is one action: the decorator of the   *)
(* route followed by the handler.  The variable last records the request   *)
(* just handled, the state it started from, its response and the ordered   *)
(* list of checks and filesystem calls the code made for it; login_at is   *)
(* the time of the last successful login; hist records whether the session *)
(* has been cleared since then, and how often it was answered as expired.  *)
(* fstime is the clock the filesystem stamps written files with (st_mtime); *)
(* now is the clock datetime.now() reads for the session.  shown is a      *)
(* timestamp and the relative time get_relative_time made of it.           *)
(* inflight holds the requests that are handled at the same time, each     *)
(* with the place its handler has reached and its local variables.         *)
(***************************************************************************)
EXTENDS Integers, Sequences, FiniteSets, TLC

VARIABLES cfg, fs, ext, fstime, session, now, last, nreq, login_at, hist, shown,
          inflight

vars == <<cfg, fs, ext, fstime, session, now, last, nreq, login_at, hist, shown,
          inflight>>

-----------------------------------------------------------------------------
(* Bounds of the model *)

\* the clock stops at MaxTime
MaxTime == 2

\* no request is served that would leave more than MaxFiles entries
MaxFiles == 3

\* the configured session_lifetime, in clock ticks
SessionLifetime == 1

\* StoreSpec serves at most MaxReq requests
MaxReq == 2

\* Python's None, and a header or mapping key that is absent
None == "None"

-----------------------------------------------------------------------------
(* Characters and strings *)

Upper == {"T"}

Lower == {"a", "c", "d", "l", "t", "x"}

Digits == {"0", "1", "2", "3", "4", "5", "6", "7", "8", "9"}

\* werkzeug: _filename_ascii_strip_re = [^A-Za-z0-9_.-]
AsciiKeep == Upper \cup Lower \cup Digits \cup {"_", ".", "-"}

\* str.split() separators
Whitespace == {" "}

\* the character class of re.sub(r'[<>:"/\\|?*]', '', safe_name)
Stripped == {"<", ">", ":", "\"", "/", "\\", "|", "?", "*"}

RECURSIVE Filter(_, _)
Filter(s, keep) ==
    IF s = <<>> THEN <<>>
    ELSE IF Head(s) \in keep THEN <<Head(s)>> \o Filter(Tail(s), keep)
    ELSE Filter(Tail(s), keep)

RECURSIVE Remove(_, _)
Remove(s, drop) ==
    IF s = <<>> THEN <<>>
    ELSE IF Head(s) \in drop THEN Remove(Tail(s), drop)
    ELSE <<Head(s)>> \o Remove(Tail(s), drop)

RECURSIVE LStrip(_, _)
LStrip(s, chars) ==
    IF s # <<>> /\ Head(s) \in chars THEN LStrip(Tail(s), chars) ELSE s

RECURSIVE RStrip(_, _)
RStrip(s, chars) ==
    IF s # <<>> /\ s[Len(s)] \in chars
    THEN RStrip(SubSeq(s, 1, Len(s) - 1), chars)
    ELSE s

\* str.strip(chars)
Strip(s, chars) == RStrip(LStrip(s, chars), chars)

\* filename.replace(os.sep, " ")
ReplaceSep(s) == [i \in 1..Len(s) |-> IF s[i] = "/" THEN " " ELSE s[i]]

\* "_".join(filename.split()): runs of whitespace become one "_", none at the ends
RECURSIVE JoinWords(_, _)
JoinWords(s, started) ==
    IF s = <<>> THEN <<>>
    ELSE IF Head(s) \in Whitespace
         THEN LET rest == LStrip(s, Whitespace)
              IN  IF rest = <<>> \/ ~started THEN JoinWords(rest, started)
                  ELSE <<"_">> \o JoinWords(rest, started)
         ELSE <<Head(s)>> \o JoinWords(Tail(s), TRUE)

\* werkzeug.utils.secure_filename on a POSIX host
secure_filename(filename) ==
    Strip(Filter(JoinWords(ReplaceSep(filename), FALSE), AsciiKeep), {".", "_"})

\* mutant of sanitize_filename: the name is used as given
sanitize_filename_Raw(filename) == filename

\* sanitize_filename: the sanitized name; the empty name <<>> stands for the
\* ValueError("Invalid filename") the code raises when nothing is left
sanitize_filename(filename) ==
    Strip(Remove(secure_filename(filename), Stripped), {".", " "})

Invalid(safe_name) == safe_name = <<>>

\* str.lower()
ToLower(s) == [i \in 1..Len(s) |-> IF s[i] = "T" THEN "t" ELSE s[i]]

\* str.rfind('.'): the last index of "." (1-based), 0 when there is none
RFindDot(s) ==
    LET idx == {i \in 1..Len(s) : s[i] = "."}
    IN  IF idx = {} THEN 0 ELSE CHOOSE i \in idx : \A j \in idx : j <= i

\* pathlib: PurePath.suffix
Suffix(name) ==
    LET i == RFindDot(name)
    IN  IF 1 < i /\ i < Len(name) THEN SubSeq(name, i, Len(name)) ELSE <<>>

\* pathlib: PurePath.stem
Stem(name) ==
    LET i == RFindDot(name)
    IN  IF 1 < i /\ i < Len(name) THEN SubSeq(name, 1, i - 1) ELSE name

DigitOf(d) ==
    CASE d = 0 -> "0" [] d = 1 -> "1" [] d = 2 -> "2" [] d = 3 -> "3"
      [] d = 4 -> "4" [] d = 5 -> "5" [] d = 6 -> "6" [] d = 7 -> "7"
      [] d = 8 -> "8" [] d = 9 -> "9"

\* the decimal text f"{counter}" of a counter
RECURSIVE Decimal(_)
Decimal(k) ==
    IF k < 10 THEN <<DigitOf(k)>> ELSE Decimal(k \div 10) \o <<DigitOf(k % 10)>>

-----------------------------------------------------------------------------
(* Relative times (seconds) *)

\* f"{n} {unit}{'s' if n != 1 else ''} ago"
Ago(n, unit) == ToString(n) \o " " \o unit \o (IF n # 1 THEN "s" ELSE "") \o " ago"

\* dt.strftime('%b %d, %Y'): the day the timestamp falls on
StrfDate(dt) == "day " \o ToString(dt \div 86400)

\* mutant of get_relative_time: the brackets are closed at their upper end
get_relative_time_Closed(dt, t) ==
    LET seconds == t - dt
    IN  IF seconds <= 60 THEN "just now"
        ELSE IF seconds <= 3600 THEN Ago(seconds \div 60, "minute")
        ELSE IF seconds <= 86400 THEN Ago(seconds \div 3600, "hour")
        ELSE IF seconds <= 604800 THEN Ago(seconds \div 86400, "day")
        ELSE IF seconds <= 2592000 THEN Ago(seconds \div 604800, "week")
        ELSE StrfDate(dt)

\* get_relative_time(dt) called at the time t; int() of a quotient that is not
\* negative is its floor
get_relative_time(dt, t) ==
    LET seconds == t - dt
    IN  IF seconds < 60 THEN "just now"
        ELSE IF seconds < 3600 THEN Ago(seconds \div 60, "minute")
        ELSE IF seconds < 86400 THEN Ago(seconds \div 3600, "hour")
        ELSE IF seconds < 604800 THEN Ago(seconds \div 86400, "day")
        ELSE IF seconds < 2592000 THEN Ago(seconds \div 604800, "week")
        ELSE StrfDate(dt)

\* a timestamp that has not been formatted yet
NotShown(dt) == [dt |-> dt, text |-> None]

-----------------------------------------------------------------------------
(* Configuration (read once at start, never written) *)

IPs == {"ip1", "ip2"}

AdminPassword == "secret"

\* werkzeug generate_password_hash, kept abstract: the hash of a password
HashOf(password) == <<"hash", password>>

\* werkzeug check_password_hash(pwhash, password)
check_password_hash(pwhash, password) == pwhash = HashOf(password)

\* ALLOWED_EXTENSIONS is None (unrestricted) or a list of lowercase suffixes
Unrestricted == {<<>>}

OnlyT == {<<".", "t">>}

\* mutant of is_allowed_extension: every extension passes
is_allowed_extension_Any(filename) == TRUE

\* is_allowed_extension; the unrestricted setting is the value Unrestricted
is_allowed_extension(filename) ==
    IF cfg.allowed_extensions = Unrestricted THEN TRUE
    ELSE ToLower(Suffix(filename)) \in cfg.allowed_extensions

\* check_ip_whitelist
check_ip_whitelist(ip) ==
    IF cfg.ip_whitelist = {} THEN TRUE ELSE ip \in cfg.ip_whitelist

-----------------------------------------------------------------------------
(* The session: a Python dict with the keys the code sets *)

EmptySession == [k \in {} |-> TRUE]

\* session.get(key): None when the key is absent
SessionGet(s, key) == IF key \in DOMAIN s THEN s[key] ELSE None

\* session.get('authenticated') is truthy
Authenticated(s) == "authenticated" \in DOMAIN s /\ s["authenticated"] = TRUE

\* session[key] = value
SessionSet(s, key, value) ==
    [k \in DOMAIN s \cup {key} |-> IF k = key THEN value ELSE s[k]]

\* mutant of TimedOut: the idle time is never compared
TimedOut_Never(s, t) == FALSE

\* the comparison datetime.now() - last_activity > timedelta(seconds=timeout);
\* it is made only when session.get('last_activity') is set
TimedOut(s, t) ==
    /\ "last_activity" \in DOMAIN s
    /\ t - s["last_activity"] > cfg.session_lifetime

-----------------------------------------------------------------------------
(* Events: the checks and filesystem calls of one request, in program order *)

Ev(call, name, loc) == [call |-> call, name |-> name, loc |-> loc]

\* an authentication check
AuthEv(call) == Ev(call, <<>>, "-")

AuthCalls == {"api_key", "session", "check_password_hash"}

FsCalls == {"exists", "resolve", "stat", "save", "unlink", "rename",
            "send", "iterdir", "is_file"}

\* the calls that read, write, remove or move what a path leads to
ActingCalls == {"stat", "save", "unlink", "rename", "send"}

-----------------------------------------------------------------------------
(* The decorators.  Each yields the decision, the session it leaves and   *)
(* the checks it ran.                                                      *)

Decision(gate, s, checks) == [gate |-> gate, session |-> s, checks |-> checks]

\* an X-API-Key header value that "if api_key:" takes as given
Truthy(key) == key # None /\ key # ""

\* mutant of SessionAuth: the handler runs whatever the session holds
SessionAuth_Open(s, t, checks) == Decision("Allow", s, checks)

\* mutant of SessionAuth: an expired session is refused but not cleared
SessionAuth_KeepsExpired(s, t, checks) ==
    IF Authenticated(s)
    THEN IF TimedOut(s, t)
         THEN Decision("SessionExpired", s, checks)
         ELSE Decision("Allow", SessionSet(s, "last_activity", t), checks)
    ELSE Decision("AuthRequired", s, checks)

\* mutant of SessionAuth: an allowed request does not set last_activity
SessionAuth_NoRefresh(s, t, checks) ==
    IF Authenticated(s)
    THEN IF TimedOut(s, t)
         THEN Decision("SessionExpired", EmptySession, checks)
         ELSE Decision("Allow", s, checks)
    ELSE Decision("AuthRequired", s, checks)

\* the session branch of require_auth (lines 221-240)
SessionAuth(s, t, checks) ==
    IF Authenticated(s)
    THEN IF TimedOut(s, t)
         THEN Decision("SessionExpired", EmptySession, checks)
         ELSE Decision("Allow", SessionSet(s, "last_activity", t), checks)
    ELSE Decision("AuthRequired", s, checks)

\* mutant of ApiKeyAuth: a key that is not configured is let through
ApiKeyAuth_Lenient(key, s, checks) == Decision("Allow", s, checks)

\* mutant of ApiKeyAuth: a valid key also resets the session
ApiKeyAuth_ClearsSession(key, s, checks) ==
    IF key \in cfg.api_keys
    THEN Decision("Allow", EmptySession, checks)
    ELSE Decision("InvalidApiKey", s, checks)

\* the X-API-Key branch of require_auth (lines 209-218)
ApiKeyAuth(key, s, checks) ==
    IF key \in cfg.api_keys
    THEN Decision("Allow", s, checks)
    ELSE Decision("InvalidApiKey", s, checks)

require_auth(ip, key, s, t) ==
    IF ~check_ip_whitelist(ip)
    THEN Decision("Forbidden", s, <<AuthEv("check_ip_whitelist")>>)
    ELSE IF Truthy(key)
         THEN ApiKeyAuth(key, s, <<AuthEv("check_ip_whitelist"), AuthEv("api_key")>>)
         ELSE SessionAuth(s, t, <<AuthEv("check_ip_whitelist"), AuthEv("session")>>)

require_login(ip, s, t) ==
    IF ~check_ip_whitelist(ip)
    THEN Decision("Forbidden", s, <<AuthEv("check_ip_whitelist")>>)
    ELSE IF ~Authenticated(s)
         THEN Decision("AuthRequired", s,
                       <<AuthEv("check_ip_whitelist"), AuthEv("session")>>)
         ELSE IF TimedOut(s, t)
              THEN Decision("SessionExpired", EmptySession,
                            <<AuthEv("check_ip_whitelist"), AuthEv("session")>>)
              ELSE Decision("Allow", SessionSet(s, "last_activity", t),
                            <<AuthEv("check_ip_whitelist"), AuthEv("session")>>)

require_api_key(ip, key, s) ==
    IF ~check_ip_whitelist(ip)
    THEN Decision("Forbidden", s, <<AuthEv("check_ip_whitelist")>>)
    ELSE IF ~Truthy(key)
         THEN Decision("ApiKeyRequired", s,
                       <<AuthEv("check_ip_whitelist"), AuthEv("api_key")>>)
         ELSE ApiKeyAuth(key, s, <<AuthEv("check_ip_whitelist"), AuthEv("api_key")>>)

\* a route without decorator
no_auth(s) == Decision("Allow", s, <<>>)

\* the URL rules '/api/files/<filename>', '/api/files/<filename>/info' and
\* '/files/<filename>': <filename> matches a non-empty segment without "/"
Routed(raw) == raw # <<>> /\ \A i \in 1..Len(raw) : raw[i] # "/"

\* no rule matches: the 404 handler answers, no view function is called
NoRoute(s) == Decision("NoRoute", s, <<>>)

-----------------------------------------------------------------------------
(* The storage directory and the filesystem calls                          *)
(* fs : entry name -> entry, the entries directly inside STORAGE_DIR       *)
(* ext: outside path -> content or None, the files links may lead to       *)

\* a regular file: its bytes and its st_mtime
File(content, mtime) == [kind |-> "file", data |-> content, mtime |-> mtime]

Dir == [kind |-> "dir", data |-> None, mtime |-> 0]

Link(target) == [kind |-> "link", data |-> target, mtime |-> 0]

OutPaths == {"o1"}

\* where STORAGE_DIR / name leads: "out" for a link (its target is outside)
Loc(f, name) ==
    IF name \in DOMAIN f /\ f[name].kind = "link" THEN "out" ELSE "in"

\* Path.exists(): follows a link, so a link whose target is missing is absent
Exists(f, e, name) ==
    /\ name \in DOMAIN f
    /\ f[name].kind = "link" => e[f[name].data] # None

\* Path.is_file() and os.path.isfile(): follow links too
IsFile(f, e, name) ==
    /\ Exists(f, e, name)
    /\ f[name].kind # "dir"

\* filepath.resolve().is_relative_to(STORAGE_DIR)
Contained(f, name) == Loc(f, name) = "in"

\* the bytes open(path, 'rb') reads: through a link, the target's
Content(f, e, name) ==
    IF f[name].kind = "link" THEN e[f[name].data] ELSE f[name].data

\* f with the entry name removed
Without(f, name) == [n \in DOMAIN f \ {name} |-> f[n]]

\* f with the entry name set
With(f, name, entry) ==
    [n \in DOMAIN f \cup {name} |-> IF n = name THEN entry ELSE f[n]]

\* file.save(filepath) opens the path for writing: through a link it writes the
\* target, otherwise it creates or truncates the entry
SaveFs(f, name, content, t) ==
    IF name \in DOMAIN f /\ f[name].kind = "link" THEN f
    ELSE With(f, name, File(content, t))

SaveExt(f, e, name, content) ==
    IF name \in DOMAIN f /\ f[name].kind = "link"
    THEN [e EXCEPT ![f[name].data] = content]
    ELSE e

\* Path.unlink(): removes a file or the link itself; raises on a directory
UnlinkRaises(f, name) == f[name].kind = "dir"

\* mutant of UnlinkGone: unlink of a missing file passes
UnlinkGone_MissingOk(f, name) == FALSE

\* Path.unlink() raises FileNotFoundError when the entry is no longer there
UnlinkGone(f, name) == name \notin DOMAIN f

\* mutant of RenameFs: the entry is copied and the old name stays
RenameFs_Copy(f, old, new) == With(f, new, f[old])

\* Path.rename(target): moves the entry itself, replacing a file or link at target
RenameFs(f, old, new) == With(Without(f, old), new, f[old])

\* os.rename raises when one of the two is a directory and the other is not
RenameRaises(f, old, new) ==
    /\ new \in DOMAIN f
    /\ (f[old].kind = "dir") # (f[new].kind = "dir")

\* open(path, 'wb') raises on a directory
SaveRaises(f, name) == name \in DOMAIN f /\ f[name].kind = "dir"

\* stat().st_mtime: stat follows a link; the time of an outside file is not
\* tracked and reads 0
Mtime(f, name) == IF f[name].kind = "link" THEN 0 ELSE f[name].mtime

\* datetime.fromtimestamp(st_mtime).isoformat(): the text whose seconds field,
\* two digits wide, is all that differs between the times of the model
IsoFormat(t) == <<DigitOf(t \div 10), DigitOf(t % 10)>>

\* get_file_metadata(filepath): stat follows a link
Metadata(f, e, name) ==
    [name |-> name, extension |-> ToLower(Suffix(name)), of |-> Content(f, e, name),
     modified |-> IsoFormat(Mtime(f, name))]

NoData == [name |-> <<>>, extension |-> <<>>, of |-> None, modified |-> <<>>]

-----------------------------------------------------------------------------
(* The handlers.  Each yields the response and the filesystem it leaves.   *)

Resp(status, code, data, body, f, e, calls) ==
    [status |-> status, code |-> code, data |-> data, body |-> body,
     files |-> <<>>, total |-> None, fs |-> f, ext |-> e, calls |-> calls]

\* mutant of Candidate: the suffixed name loses its extension
Candidate_Bare(base, suffix, counter) == base \o <<"_">> \o Decimal(counter)

\* line 544: f"{base}_{counter}{ext}"
Candidate(base, suffix, counter) == base \o <<"_">> \o Decimal(counter) \o suffix

\* mutant of Probe: the first suffixed name is taken without testing it
Probe_Once(f, e, base, suffix, counter, calls) ==
    LET filename == Candidate(base, suffix, counter)
    IN  [filename |-> filename, calls |-> calls]

\* the while loop of upload_file (lines 543-546): the first base_counter.ext
\* that does not exist, with the exists() calls made on the way
RECURSIVE Probe(_, _, _, _, _, _)
Probe(f, e, base, suffix, counter, calls) ==
    LET filename == Candidate(base, suffix, counter)
        seen == Append(calls, Ev("exists", filename, Loc(f, filename)))
    IN  IF Exists(f, e, filename)
        THEN Probe(f, e, base, suffix, counter + 1, seen)
        ELSE [filename |-> filename, calls |-> seen]

\* mutant of Target: the upload is saved under the sanitized name, taken or not
Target_NoProbe(f, e, filename) ==
    [filename |-> filename, calls |-> <<Ev("exists", filename, Loc(f, filename))>>]

\* lines 536-546: the name the upload is stored under
Target(f, e, filename) ==
    LET first == <<Ev("exists", filename, Loc(f, filename))>>
    IN  IF Exists(f, e, filename)
        THEN Probe(f, e, Stem(filename), Suffix(filename), 1, first)
        ELSE [filename |-> filename, calls |-> first]

\* part: the multipart field 'file' ([present, filename, content])
upload_file(f, e, part, t) ==
    IF ~part.present
    THEN Resp("BadRequest", 400, NoData, None, f, e, <<>>)
    ELSE IF part.filename = <<>>
    THEN Resp("BadRequest", 400, NoData, None, f, e, <<>>)
    ELSE LET filename == sanitize_filename(part.filename)
             san == <<Ev("sanitize", part.filename, "-")>>
         IN  IF Invalid(filename)
             THEN Resp("InvalidFilename", 400, NoData, None, f, e, san)
             ELSE IF ~is_allowed_extension(filename)
             THEN Resp("DisallowedExtension", 400, NoData, None, f, e, san)
             ELSE LET tg == Target(f, e, filename)
                      f2 == SaveFs(f, tg.filename, part.content, t)
                      e2 == SaveExt(f, e, tg.filename, part.content)
                  IN  IF SaveRaises(f, tg.filename)
                      THEN Resp("InternalError", 500, NoData, None, f, e,
                                san \o tg.calls
                                \o <<Ev("save", tg.filename, Loc(f, tg.filename))>>)
                      ELSE
                      Resp("OK", 200, Metadata(f2, e2, tg.filename), None, f2, e2,
                           san \o tg.calls
                           \o <<Ev("save", tg.filename, Loc(f, tg.filename)),
                                Ev("stat", tg.filename, Loc(f2, tg.filename))>>)

\* mutant of delete_file: the resolved path is not compared with STORAGE_DIR
delete_file_Unchecked(f, e, raw) ==
    LET safe_filename == sanitize_filename(raw)
        san == <<Ev("sanitize", raw, "-")>>
        ex  == Append(san, Ev("exists", safe_filename, Loc(f, safe_filename)))
        un  == Append(ex, Ev("unlink", safe_filename, Loc(f, safe_filename)))
    IN  IF Invalid(safe_filename)
        THEN Resp("InvalidFilename", 400, NoData, None, f, e, san)
        ELSE IF ~Exists(f, e, safe_filename)
        THEN Resp("NotFound", 404, NoData, None, f, e, ex)
        ELSE IF UnlinkRaises(f, safe_filename)
        THEN Resp("InternalError", 500, NoData, None, f, e, un)
        ELSE Resp("OK", 200, NoData, None, Without(f, safe_filename), e, un)

delete_file(f, e, raw) ==
    LET safe_filename == sanitize_filename(raw)
        san == <<Ev("sanitize", raw, "-")>>
        ex  == Append(san, Ev("exists", safe_filename, Loc(f, safe_filename)))
        res == Append(ex, Ev("resolve", safe_filename, Loc(f, safe_filename)))
        un  == Append(res, Ev("unlink", safe_filename, Loc(f, safe_filename)))
    IN  IF Invalid(safe_filename)
        THEN Resp("InvalidFilename", 400, NoData, None, f, e, san)
        ELSE IF ~Exists(f, e, safe_filename)
        THEN Resp("NotFound", 404, NoData, None, f, e, ex)
        ELSE IF ~Contained(f, safe_filename)
        THEN Resp("PathTraversal", 400, NoData, None, f, e, res)
        ELSE IF UnlinkRaises(f, safe_filename)
        THEN Resp("InternalError", 500, NoData, None, f, e, un)
        ELSE Resp("OK", 200, NoData, None, Without(f, safe_filename), e, un)

\* mutant of Conflicts: the existence of the target is not tested
Conflicts_Never(f, e, new) == FALSE

\* line 658: the target of a rename is taken
Conflicts(f, e, new) == Exists(f, e, new)

\* body: the JSON body ([is_json, new_name])
rename_file(f, e, raw, body) ==
    LET safe_old_name == sanitize_filename(raw)
        safe_new_name == sanitize_filename(body.new_name)
        san1 == <<Ev("sanitize", raw, "-")>>
        san  == Append(san1, Ev("sanitize", body.new_name, "-"))
        ex1  == Append(san, Ev("exists", safe_old_name, Loc(f, safe_old_name)))
        ex2  == Append(ex1, Ev("exists", safe_new_name, Loc(f, safe_new_name)))
        res  == Append(ex2, Ev("resolve", safe_old_name, Loc(f, safe_old_name)))
        f2   == RenameFs(f, safe_old_name, safe_new_name)
    IN  IF ~body.is_json
        THEN Resp("BadRequest", 400, NoData, None, f, e, <<>>)
        ELSE IF Invalid(safe_old_name)
        THEN Resp("InvalidFilename", 400, NoData, None, f, e, san1)
        ELSE IF Invalid(safe_new_name)
        THEN Resp("InvalidFilename", 400, NoData, None, f, e, san)
        ELSE IF ~is_allowed_extension(safe_new_name)
        THEN Resp("DisallowedExtension", 400, NoData, None, f, e, san)
        ELSE IF ~Exists(f, e, safe_old_name)
        THEN Resp("NotFound", 404, NoData, None, f, e, ex1)
        ELSE IF Conflicts(f, e, safe_new_name)
        THEN Resp("Conflict", 409, NoData, None, f, e, ex2)
        ELSE IF ~Contained(f, safe_old_name)
        THEN Resp("PathTraversal", 400, NoData, None, f, e, res)
        ELSE IF RenameRaises(f, safe_old_name, safe_new_name)
        THEN Resp("InternalError", 500, NoData, None, f, e,
                  Append(res, Ev("rename", safe_old_name, Loc(f, safe_old_name))))
        ELSE Resp("OK", 200, Metadata(f2, e, safe_new_name), None, f2, e,
                  res \o <<Ev("rename", safe_old_name, Loc(f, safe_old_name)),
                           Ev("stat", safe_new_name, Loc(f2, safe_new_name))>>)

file_info(f, e, raw) ==
    LET safe_filename == sanitize_filename(raw)
        san == <<Ev("sanitize", raw, "-")>>
        ex  == Append(san, Ev("exists", safe_filename, Loc(f, safe_filename)))
    IN  IF Invalid(safe_filename)
        THEN Resp("InvalidFilename", 400, NoData, None, f, e, san)
        ELSE IF ~Exists(f, e, safe_filename)
        THEN Resp("NotFound", 404, NoData, None, f, e, ex)
        ELSE Resp("OK", 200, Metadata(f, e, safe_filename), None, f, e,
                  Append(ex, Ev("stat", safe_filename, Loc(f, safe_filename))))

\* mutant of Escaped: a name that leads out of the directory is answered as such
Escaped_Told(f, e, calls) == Resp("PathTraversal", 400, NoData, None, f, e, calls)

\* lines 756-758: abort(404) when the path resolves outside STORAGE_DIR
Escaped(f, e, calls) == Resp("NotFound", 404, NoData, None, f, e, calls)

download_file(f, e, raw) ==
    LET safe_filename == sanitize_filename(raw)
        san == <<Ev("sanitize", raw, "-")>>
        ex  == Append(san, Ev("exists", safe_filename, Loc(f, safe_filename)))
        res == Append(ex, Ev("resolve", safe_filename, Loc(f, safe_filename)))
        isf == Append(res, Ev("is_file", safe_filename, Loc(f, safe_filename)))
    IN  IF Invalid(safe_filename)
        THEN Resp("NotFound", 404, NoData, None, f, e, san)
        ELSE IF ~Exists(f, e, safe_filename)
        THEN Resp("NotFound", 404, NoData, None, f, e, ex)
        ELSE IF ~Contained(f, safe_filename)
        THEN Escaped(f, e, res)
        ELSE IF ~IsFile(f, e, safe_filename)
        THEN Resp("NotFound", 404, NoData, None, f, e, isf)
        ELSE Resp("OK", 200, NoData, Content(f, e, safe_filename), f, e,
                  Append(isf, Ev("send", safe_filename, Loc(f, safe_filename))))

\* the entries of STORAGE_DIR.iterdir() that pass filepath.is_file()
Listed(f, e) == {n \in DOMAIN f : IsFile(f, e, n)}

\* the orders iterdir() may yield the entries in
IterOrders(f) ==
    {order \in [1..Cardinality(DOMAIN f) -> DOMAIN f] :
        \A i, j \in DOMAIN order : i # j => order[i] # order[j]}

\* the comparison of two str values: by the first character that differs, a
\* proper prefix first; the characters of a timestamp are digits
RECURSIVE StrLess(_, _)
StrLess(a, b) ==
    IF b = <<>> THEN FALSE
    ELSE IF a = <<>> THEN TRUE
    ELSE IF Head(a) = Head(b) THEN StrLess(Tail(a), Tail(b))
    ELSE \E x, y \in 0..9 : Head(a) = DigitOf(x) /\ Head(b) = DigitOf(y) /\ x < y

\* the place of one more record in a list sorted newest first: behind every
\* record that is not older (list.sort is stable, reverse=True keeps the order
\* of records with equal keys)
RECURSIVE Insert(_, _)
Insert(sorted, rec) ==
    IF sorted = <<>> THEN <<rec>>
    ELSE IF StrLess(Head(sorted).modified, rec.modified)
    THEN <<rec>> \o sorted
    ELSE <<Head(sorted)>> \o Insert(Tail(sorted), rec)

\* files.sort(key=lambda x: x['modified'], reverse=True)
RECURSIVE SortNewestFirst(_)
SortNewestFirst(files) ==
    IF files = <<>> THEN <<>>
    ELSE Insert(SortNewestFirst(SubSeq(files, 1, Len(files) - 1)), files[Len(files)])

\* the loop of lines 472-479 over the entries in the order iterdir yields them
RECURSIVE Collect(_, _, _)
Collect(f, e, order) ==
    IF order = <<>> THEN <<>>
    ELSE IF IsFile(f, e, Head(order))
    THEN <<Metadata(f, e, Head(order))>> \o Collect(f, e, Tail(order))
    ELSE Collect(f, e, Tail(order))

\* order: the order in which iterdir() yields the entries
list_files(f, e, order) ==
    LET files == SortNewestFirst(Collect(f, e, order))
    IN  [Resp("OK", 200, NoData, None, f, e, <<Ev("iterdir", <<>>, "in")>>)
            EXCEPT !.files = files, !.total = Len(files)]

\* a handler that touches neither the session nor the filesystem
render(f, e) == Resp("OK", 200, NoData, None, f, e, <<>>)

-----------------------------------------------------------------------------
(* Requests handled at the same time.  A handler runs one filesystem call  *)
(* at a time; between two calls of one handler the other handler may run.  *)

Procs == {1, 2}

\* the bytes request p uploads
ContentOf(p) == IF p = 1 THEN "c1" ELSE "c2"

\* a request that has not arrived.  free_seen, lost and wrote are history: the
\* existence test that let the handler go on found the name absent from the
\* directory; the bytes its write replaced; the name its write created
Idle ==
    [op |-> "none", pc |-> "idle", filename |-> <<>>, new |-> <<>>, base |-> <<>>,
     suffix |-> <<>>, counter |-> 0, content |-> None, status |-> None,
     free_seen |-> FALSE, lost |-> None, wrote |-> <<>>]

NoneInFlight == [p \in Procs |-> Idle]

\* the handler returns
Return(r, status) == [r EXCEPT !.pc = "done", !.status = status]

\* what a write to name replaces
Replaced(f, name) == IF name \in DOMAIN f THEN f[name].data ELSE None

\* mutant of LoopTest: the loop is left at once
LoopTest_Skip(f, e, filename) == FALSE

\* line 543: while filepath.exists()
LoopTest(f, e, filename) == Exists(f, e, filename)

\* lines 505-534 of upload_file, which touch no file
UploadBegin(r, p, raw) ==
    LET filename == sanitize_filename(raw)
    IN  IF Invalid(filename) THEN Return([r EXCEPT !.op = "upload"], "InvalidFilename")
        ELSE IF ~is_allowed_extension(filename)
        THEN Return([r EXCEPT !.op = "upload"], "DisallowedExtension")
        ELSE [r EXCEPT !.op = "upload", !.pc = "if_exists", !.filename = filename,
                       !.content = ContentOf(p)]

\* line 538: if filepath.exists()
UploadIf(r, f, e) ==
    IF Exists(f, e, r.filename)
    THEN [r EXCEPT !.pc = "while", !.base = Stem(r.filename),
                   !.suffix = Suffix(r.filename), !.counter = 1]
    ELSE [r EXCEPT !.pc = "save", !.free_seen = r.filename \notin DOMAIN f]

\* lines 543-546: one test of the loop, and its body
UploadLoop(r, f, e) ==
    IF LoopTest(f, e, r.filename)
    THEN [r EXCEPT !.filename = Candidate(r.base, r.suffix, r.counter),
                   !.counter = r.counter + 1]
    ELSE [r EXCEPT !.pc = "save", !.free_seen = r.filename \notin DOMAIN f]

\* lines 621-649 of rename_file, which touch no file
RenameBegin(r, raw, body) ==
    LET safe_old_name == sanitize_filename(raw)
        safe_new_name == sanitize_filename(body.new_name)
        q == [r EXCEPT !.op = "rename"]
    IN  IF ~body.is_json THEN Return(q, "BadRequest")
        ELSE IF Invalid(safe_old_name) \/ Invalid(safe_new_name)
        THEN Return(q, "InvalidFilename")
        ELSE IF ~is_allowed_extension(safe_new_name)
        THEN Return(q, "DisallowedExtension")
        ELSE [q EXCEPT !.pc = "old_exists", !.filename = safe_old_name,
                       !.new = safe_new_name]

\* lines 575-583 of delete_file, which touch no file
DeleteBegin(r, raw) ==
    LET safe_filename == sanitize_filename(raw)
        q == [r EXCEPT !.op = "delete"]
    IN  IF Invalid(safe_filename) THEN Return(q, "InvalidFilename")
        ELSE [q EXCEPT !.pc = "exists", !.filename = safe_filename]

-----------------------------------------------------------------------------
(* Requests *)

NoPart == [present |-> FALSE, filename |-> <<>>, content |-> None]

Part(filename, content) ==
    [present |-> TRUE, filename |-> filename, content |-> content]

NoBody == [is_json |-> FALSE, new_name |-> <<>>, password |-> ""]

RenameBody(new_name) == [is_json |-> TRUE, new_name |-> new_name, password |-> ""]

LoginBody(password) == [is_json |-> TRUE, new_name |-> <<>>, password |-> password]

\* the request handled last; op = "none" before the first one
NoRequest ==
    [op |-> "none", ip |-> "ip1", key |-> None, raw |-> <<>>, part |-> NoPart,
     body |-> NoBody, gate |-> "Allow", status |-> "OK", code |-> 200,
     data |-> NoData, sent |-> None, files |-> <<>>, total |-> None, calls |-> <<>>,
     pre_fs |-> [n \in {} |-> Dir], pre_ext |-> [o \in OutPaths |-> None],
     pre_session |-> EmptySession, at |-> 0]

\* abort(403), the 401 responses of the decorators, and the 404 of the router
Denied(d) ==
    IF d.gate = "NoRoute" THEN Resp("NotFound", 404, NoData, None, fs, ext, <<>>)
    ELSE Resp(d.gate, IF d.gate = "Forbidden" THEN 403 ELSE 401, NoData, None,
              fs, ext, <<>>)

\* what has happened to the session since the last successful login
NoHistory == [cleared |-> FALSE, expired |-> 0]

History(op, status) ==
    IF op = "login" /\ status = "OK" THEN NoHistory
    ELSE IF status = "SessionExpired"
    THEN [cleared |-> TRUE,
          expired |-> IF hist.expired < 2 THEN hist.expired + 1 ELSE hist.expired]
    ELSE IF op = "logout" THEN [hist EXCEPT !.cleared = TRUE]
    ELSE hist

\* one request: the decorator's decision d, then the handler's response r when
\* the decorator lets it run; s2 is the session the request leaves
ServeWith(op, ip, key, raw, part, body, d, r, deny, s2) ==
    LET out == IF d.gate = "Allow" THEN r ELSE deny
    IN  /\ Cardinality(DOMAIN out.fs) <= MaxFiles
        /\ fs' = out.fs
        /\ ext' = out.ext
        /\ session' = s2
        /\ last' = [op |-> op, ip |-> ip, key |-> key, raw |-> raw, part |-> part,
                    body |-> body, gate |-> d.gate, status |-> out.status,
                    code |-> out.code, data |-> out.data, sent |-> out.body,
                    files |-> out.files, total |-> out.total,
                    calls |-> d.checks \o out.calls,
                    pre_fs |-> fs, pre_ext |-> ext, pre_session |-> session,
                    at |-> now]
        /\ login_at' = IF op = "login" /\ out.status = "OK" THEN now ELSE login_at
        /\ hist' = History(op, out.status)
        /\ UNCHANGED <<cfg, now, fstime, shown, inflight>>

Serve(op, ip, key, raw, part, body, d, r, s2) ==
    ServeWith(op, ip, key, raw, part, body, d, r, Denied(d), s2)

\* GET /api/files
ListFiles(ip, key, order) ==
    LET d == require_auth(ip, key, session, now)
    IN  Serve("list", ip, key, <<>>, NoPart, NoBody, d, list_files(fs, ext, order),
              d.session)

\* POST /api/upload
UploadFile(ip, key, part) ==
    LET d == require_auth(ip, key, session, now)
    IN  Serve("upload", ip, key, part.filename, part, NoBody, d,
              upload_file(fs, ext, part, fstime), d.session)

\* DELETE /api/files/<filename>
DeleteFile(ip, key, raw) ==
    LET d == IF Routed(raw) THEN require_auth(ip, key, session, now)
             ELSE NoRoute(session)
    IN  Serve("delete", ip, key, raw, NoPart, NoBody, d,
              delete_file(fs, ext, raw), d.session)

\* PUT /api/files/<filename>
RenameFile(ip, key, raw, body) ==
    LET d == IF Routed(raw) THEN require_auth(ip, key, session, now)
             ELSE NoRoute(session)
    IN  Serve("rename", ip, key, raw, NoPart, body, d,
              rename_file(fs, ext, raw, body), d.session)

\* GET /api/files/<filename>/info
FileInfo(ip, key, raw) ==
    LET d == IF Routed(raw) THEN require_auth(ip, key, session, now)
             ELSE NoRoute(session)
    IN  Serve("info", ip, key, raw, NoPart, NoBody, d,
              file_info(fs, ext, raw), d.session)

\* GET /files/<filename>
DownloadFile(ip, raw) ==
    LET d == IF Routed(raw) THEN no_auth(session) ELSE NoRoute(session)
    IN  Serve("download", ip, None, raw, NoPart, NoBody, d,
              download_file(fs, ext, raw), d.session)

\* require_login answers a browser navigation with a redirect to the login page
LoginDenied(d, is_json) ==
    IF d.gate = "Forbidden" \/ is_json THEN Denied(d)
    ELSE Resp(d.gate, 302, NoData, None, fs, ext, <<>>)

\* GET /
Index(ip, is_json) ==
    LET d == require_login(ip, session, now)
    IN  ServeWith("index", ip, None, <<>>, NoPart,
                  [is_json |-> is_json, new_name |-> <<>>, password |-> ""],
                  d, render(fs, ext), LoginDenied(d, is_json), d.session)

\* a route under @require_api_key (the decorator is defined; its handler is opaque)
ApiKeyRoute(ip, key) ==
    LET d == require_api_key(ip, key, session)
    IN  Serve("api_key_route", ip, key, <<>>, NoPart, NoBody, d, render(fs, ext),
              d.session)

\* mutant of LoginSession: the time of the login is not recorded
LoginSession_NoActivity(s, t) == SessionSet(EmptySession, "authenticated", TRUE)

\* mutant of LoginSession: a session that is already authenticated is kept
LoginSession_Keep(s, t) ==
    IF Authenticated(s) THEN s
    ELSE SessionSet(SessionSet(s, "authenticated", TRUE), "last_activity", t)

\* lines 424-427: session.clear(), then the two keys are set.  session.permanent
\* is an attribute of the cookie, not a key the code reads
LoginSession(s, t) ==
    SessionSet(SessionSet(EmptySession, "authenticated", TRUE), "last_activity", t)

\* POST /login
Login(ip, body) ==
    LET d  == no_auth(session)
        ok == check_password_hash(cfg.admin_password_hash, body.password)
        pw == <<AuthEv("check_password_hash")>>
        r  == IF ~body.is_json
              THEN Resp("BadRequest", 400, NoData, None, fs, ext, <<>>)
              ELSE IF ok THEN Resp("OK", 200, NoData, None, fs, ext, pw)
              ELSE Resp("InvalidPassword", 401, NoData, None, fs, ext, pw)
        s2 == IF body.is_json /\ ok THEN LoginSession(session, now) ELSE session
    IN  Serve("login", ip, None, <<>>, NoPart, body, d, r, s2)

\* GET /logout
Logout(ip) ==
    Serve("logout", ip, None, <<>>, NoPart, NoBody, no_auth(session),
          Resp("Redirect", 302, NoData, None, fs, ext, <<>>), EmptySession)

\* GET /login
LoginPage(ip) ==
    Serve("login_page", ip, None, <<>>, NoPart, NoBody, no_auth(session),
          IF Authenticated(session)
          THEN Resp("Redirect", 302, NoData, None, fs, ext, <<>>)
          ELSE render(fs, ext),
          session)

\* GET /health
HealthCheck(ip) ==
    Serve("health", ip, None, <<>>, NoPart, NoBody, no_auth(session),
          render(fs, ext), session)

\* datetime.now() moves on between requests
Tick ==
    /\ now < MaxTime
    /\ now' = now + 1
    /\ UNCHANGED <<cfg, fs, ext, fstime, session, last, nreq, login_at, hist, shown,
                   inflight>>

-----------------------------------------------------------------------------
(* Specification Spec: every route, with all credentials, over one name    *)

Config(whitelist, allowed) ==
    [ip_whitelist |-> whitelist, api_keys |-> {"k1"},
     admin_password_hash |-> HashOf(AdminPassword),
     session_lifetime |-> SessionLifetime, allowed_extensions |-> allowed]

KeyHeaders == {None, "", "k1", "bad"}

Passwords == {AdminPassword, "guess"}

at == <<"a", ".", "t">>

Names == {at}

Contents == {"c1"}

NoOutside == [o \in OutPaths |-> None]

Init ==
    /\ cfg = Config({"ip1"}, Unrestricted)
    /\ fs = [n \in {at} |-> File("c0", 0)]
    /\ ext = NoOutside
    /\ fstime = 0
    /\ session = EmptySession
    /\ now = 0
    /\ last = NoRequest
    /\ nreq = 0
    /\ login_at = 0
    /\ hist = NoHistory
    /\ shown = NotShown(0)
    /\ inflight = NoneInFlight

\* one of the orders iterdir() may yield
SomeOrder(f) == CHOOSE order \in IterOrders(f) : TRUE

\* a request of Spec: requests are not counted
Free(A) == A /\ UNCHANGED nreq

Next ==
    \/ Tick
    \/ \E ip \in IPs, key \in KeyHeaders : Free(ListFiles(ip, key, SomeOrder(fs)))
    \/ \E ip \in IPs, key \in KeyHeaders, raw \in Names, c \in Contents :
          Free(UploadFile(ip, key, Part(raw, c)))
    \/ \E ip \in IPs, key \in KeyHeaders, raw \in Names : Free(DeleteFile(ip, key, raw))
    \/ \E ip \in IPs, key \in KeyHeaders, raw \in Names, new \in Names :
          Free(RenameFile(ip, key, raw, RenameBody(new)))
    \/ \E ip \in IPs, key \in KeyHeaders, raw \in Names : Free(FileInfo(ip, key, raw))
    \/ \E ip \in IPs, raw \in Names : Free(DownloadFile(ip, raw))
    \/ \E ip \in IPs, is_json \in BOOLEAN : Free(Index(ip, is_json))
    \/ \E ip \in IPs, key \in KeyHeaders : Free(ApiKeyRoute(ip, key))
    \/ \E ip \in IPs, pw \in Passwords : Free(Login(ip, LoginBody(pw)))
    \/ \E ip \in IPs : Free(Login(ip, NoBody))
    \/ \E ip \in IPs : Free(Logout(ip))
    \/ \E ip \in IPs : Free(LoginPage(ip))
    \/ \E ip \in IPs : Free(HealthCheck(ip))

Spec == Init /\ [][Next]_vars

-----------------------------------------------------------------------------
(* Specification StoreSpec: the storage handlers, called with a valid API  *)
(* key, over several names and over stores that hold files, a directory    *)
(* and links.                                                              *)

a1t == <<"a", "_", "1", ".", "t">>

ax == <<"a", ".", "x">>

lt == <<"l", ".", "t">>

dname == <<"d">>

\* "/../a.t": an absolute prefix, a "../" segment and a "/"
traversal == <<"/", ".", ".", "/", "a", ".", "t">>

dotdot == <<".", ".">>

\* a name whose extension is in upper case
aT == <<"a", ".", "T">>

StoreNames == {at, ax, aT, lt, dname, traversal, dotdot}

StoreContents == {"c1", "c2"}

Store(f, e) == [fs |-> f, ext |-> e]

Outside(content) == [o \in OutPaths |-> content]

\* directories the service may be started on
InitStores ==
    { Store([n \in {} |-> Dir], NoOutside),
      Store([n \in {at} |-> File("c0", 0)], NoOutside),
      Store([n \in {at, a1t} |-> File("c0", 0)], NoOutside),
      Store([n \in {at, lt} |-> IF n = lt THEN Link("o1") ELSE File("c0", 0)],
            Outside("s0")),
      Store([n \in {at, lt} |-> IF n = lt THEN Link("o1") ELSE File("c0", 0)],
            NoOutside),
      Store([n \in {at, dname} |-> IF n = dname THEN Dir ELSE File("c0", 0)],
            NoOutside),
      Store([n \in {ax} |-> File("c0", 0)], NoOutside) }

StoreInit ==
    /\ cfg \in {Config({}, allowed) : allowed \in {Unrestricted, OnlyT}}
    /\ \E st \in InitStores : fs = st.fs /\ ext = st.ext
    /\ fstime = 0
    /\ session = EmptySession
    /\ now = 0
    /\ last = NoRequest
    /\ nreq = 0
    /\ login_at = 0
    /\ hist = NoHistory
    /\ shown = NotShown(0)
    /\ inflight = NoneInFlight

\* a request of StoreSpec: requests are counted, up to MaxReq
Counted(A) == nreq < MaxReq /\ nreq' = nreq + 1 /\ A

StoreNext ==
    \/ Counted(ListFiles("ip1", "k1", SomeOrder(fs)))
    \/ \E raw \in StoreNames, c \in StoreContents :
          Counted(UploadFile("ip1", "k1", Part(raw, c)))
    \/ Counted(UploadFile("ip1", "k1", NoPart))
    \/ Counted(UploadFile("ip1", "k1", Part(<<>>, "c1")))
    \/ \E raw \in StoreNames : Counted(DeleteFile("ip1", "k1", raw))
    \/ \E raw \in StoreNames, new \in StoreNames :
          Counted(RenameFile("ip1", "k1", raw, RenameBody(new)))
    \/ \E raw \in StoreNames : Counted(RenameFile("ip1", "k1", raw, NoBody))
    \/ \E raw \in StoreNames : Counted(FileInfo("ip1", "k1", raw))
    \/ \E raw \in StoreNames : Counted(DownloadFile("ip1", raw))

StoreSpec == StoreInit /\ [][StoreNext]_vars

-----------------------------------------------------------------------------
(* Specification ListSpec: listings and uploads, with a valid API key, over *)
(* stores whose files were written at different times and at the same time *)

\* the filesystem's clock moves on between requests
FsTick ==
    /\ fstime < MaxTime
    /\ fstime' = fstime + 1
    /\ UNCHANGED <<cfg, fs, ext, session, now, last, nreq, login_at, hist, shown,
                   inflight>>

ListStores ==
    { Store([n \in {at, ax} |-> IF n = at THEN File("c0", 0) ELSE File("c0", 1)],
            NoOutside),
      Store([n \in {at, ax} |-> IF n = at THEN File("c0", 1) ELSE File("c0", 0)],
            NoOutside),
      Store([n \in {at, ax} |-> File("c0", 0)], NoOutside),
      Store([n \in {at, lt} |-> IF n = lt THEN Link("o1") ELSE File("c0", 0)],
            Outside("s0")),
      Store([n \in {at, lt} |-> IF n = lt THEN Link("o1") ELSE File("c0", 0)],
            NoOutside),
      Store([n \in {at, dname} |-> IF n = dname THEN Dir ELSE File("c0", 0)],
            NoOutside) }

ListInit ==
    /\ cfg = Config({}, Unrestricted)
    /\ \E st \in ListStores : fs = st.fs /\ ext = st.ext
    /\ fstime = 1
    /\ session = EmptySession
    /\ now = 0
    /\ last = NoRequest
    /\ nreq = 0
    /\ login_at = 0
    /\ hist = NoHistory
    /\ shown = NotShown(0)
    /\ inflight = NoneInFlight

ListNext ==
    \/ FsTick
    \/ \E order \in IterOrders(fs) : Counted(ListFiles("ip1", "k1", order))
    \/ \E raw \in {at, ax} : Counted(UploadFile("ip1", "k1", Part(raw, "c1")))

ListSpec == ListInit /\ [][ListNext]_vars

-----------------------------------------------------------------------------
(* Specification TimeSpec: get_relative_time on timestamps of every age    *)
(* around the ends of its brackets                                         *)

\* the lengths of a minute, an hour, a day and a week
Units == {60, 3600, 86400, 604800}

\* ages in seconds: the first multiples of every unit, the second before and
\* the second after each, and the ages around 30 days
Ages ==
    {-1, 0, 1, 59, 2591999, 2592000, 2592001, 5184000}
       \cup {u * k + o : u \in Units, k \in 1..5, o \in {-1, 0, 1}}

Stamps == {0, 100000}

TimeInit ==
    /\ cfg = Config({}, Unrestricted)
    /\ fs = [n \in {} |-> Dir]
    /\ ext = NoOutside
    /\ fstime = 0
    /\ session = EmptySession
    /\ \E dt \in Stamps, age \in Ages : shown = NotShown(dt) /\ now = dt + age
    /\ last = NoRequest
    /\ nreq = 0
    /\ login_at = 0
    /\ hist = NoHistory
    /\ inflight = NoneInFlight

\* a timestamp is formatted
Format ==
    /\ shown.text = None
    /\ shown' = [shown EXCEPT !.text = get_relative_time(shown.dt, now)]
    /\ UNCHANGED <<cfg, fs, ext, fstime, session, now, last, nreq, login_at, hist,
                   inflight>>

TimeNext == Format

TimeSpec == TimeInit /\ [][TimeNext]_vars

-----------------------------------------------------------------------------
(* Specification RaceSpec: two requests with a valid API key, an upload, a  *)
(* rename or a delete each, whose filesystem calls interleave; last.pre_fs  *)
(* keeps the directory the two requests started on                         *)

\* what a step of a handler leaves alone
RaceFrame ==
    UNCHANGED <<cfg, fstime, session, now, last, nreq, login_at, hist, shown>>

\* request p goes on as r, the directory as f
Step(p, r, f) ==
    /\ inflight' = [inflight EXCEPT ![p] = r]
    /\ fs' = f
    /\ UNCHANGED ext
    /\ RaceFrame

\* the decorator lets the request through
Admitted == require_auth("ip1", "k1", session, now).gate = "Allow"

\* POST /api/upload arrives
StartUpload(p, raw) ==
    /\ inflight[p].pc = "idle"
    /\ Admitted
    /\ Step(p, UploadBegin(inflight[p], p, raw), fs)

\* line 538
UploadIfExists(p) ==
    /\ inflight[p].pc = "if_exists"
    /\ Step(p, UploadIf(inflight[p], fs, ext), fs)

\* lines 543-546
UploadWhile(p) ==
    /\ inflight[p].pc = "while"
    /\ Step(p, UploadLoop(inflight[p], fs, ext), fs)

\* line 549: file.save(filepath)
UploadSave(p) ==
    LET r == inflight[p]
    IN  /\ r.pc = "save"
        /\ IF SaveRaises(fs, r.filename)
           THEN Step(p, Return(r, "InternalError"), fs)
           ELSE Step(p, [r EXCEPT !.pc = "stat", !.wrote = r.filename,
                                  !.lost = Replaced(fs, r.filename)],
                     SaveFs(fs, r.filename, r.content, fstime))

\* line 550: get_file_metadata(filepath)
UploadStat(p) ==
    LET r == inflight[p]
    IN  /\ r.op = "upload"
        /\ r.pc = "stat"
        /\ Step(p, Return(r, IF Exists(fs, ext, r.filename) THEN "OK"
                                                            ELSE "InternalError"),
                fs)

\* PUT /api/files/<filename> arrives
StartRename(p, raw, body) ==
    /\ inflight[p].pc = "idle"
    /\ Routed(raw)
    /\ Admitted
    /\ Step(p, RenameBegin(inflight[p], raw, body), fs)

\* line 651: if not old_path.exists()
RenameOldExists(p) ==
    LET r == inflight[p]
    IN  /\ r.pc = "old_exists"
        /\ Step(p, IF ~Exists(fs, ext, r.filename) THEN Return(r, "NotFound")
                   ELSE [r EXCEPT !.pc = "new_exists"],
                fs)

\* line 658: if new_path.exists()
RenameNewExists(p) ==
    LET r == inflight[p]
    IN  /\ r.pc = "new_exists"
        /\ Step(p, IF Conflicts(fs, ext, r.new) THEN Return(r, "Conflict")
                   ELSE [r EXCEPT !.pc = "resolve",
                                  !.free_seen = r.new \notin DOMAIN fs],
                fs)

\* line 666: old_path.resolve().is_relative_to(STORAGE_DIR)
RenameResolve(p) ==
    LET r == inflight[p]
    IN  /\ r.op = "rename"
        /\ r.pc = "resolve"
        /\ Step(p, IF ~Contained(fs, r.filename) THEN Return(r, "PathTraversal")
                   ELSE [r EXCEPT !.pc = "rename"],
                fs)

\* line 675: old_path.rename(new_path); it raises when old_path is gone
RenameCall(p) ==
    LET r == inflight[p]
    IN  /\ r.pc = "rename"
        /\ IF r.filename \notin DOMAIN fs \/ RenameRaises(fs, r.filename, r.new)
           THEN Step(p, Return(r, "InternalError"), fs)
           ELSE Step(p, [r EXCEPT !.pc = "stat", !.wrote = r.new,
                                  !.lost = Replaced(fs, r.new)],
                     RenameFs(fs, r.filename, r.new))

\* line 676: get_file_metadata(new_path)
RenameStat(p) ==
    LET r == inflight[p]
    IN  /\ r.op = "rename"
        /\ r.pc = "stat"
        /\ Step(p, Return(r, IF Exists(fs, ext, r.new) THEN "OK" ELSE "InternalError"),
                fs)

\* DELETE /api/files/<filename> arrives
StartDelete(p, raw) ==
    /\ inflight[p].pc = "idle"
    /\ Routed(raw)
    /\ Admitted
    /\ Step(p, DeleteBegin(inflight[p], raw), fs)

\* line 584: if not filepath.exists()
DeleteExists(p) ==
    LET r == inflight[p]
    IN  /\ r.pc = "exists"
        /\ Step(p, IF ~Exists(fs, ext, r.filename) THEN Return(r, "NotFound")
                   ELSE [r EXCEPT !.pc = "resolve"],
                fs)

\* line 592: filepath.resolve().is_relative_to(STORAGE_DIR)
DeleteResolve(p) ==
    LET r == inflight[p]
    IN  /\ r.op = "delete"
        /\ r.pc = "resolve"
        /\ Step(p, IF ~Contained(fs, r.filename) THEN Return(r, "PathTraversal")
                   ELSE [r EXCEPT !.pc = "unlink"],
                fs)

\* line 601: filepath.unlink(); it raises when the file is gone
DeleteUnlink(p) ==
    LET r == inflight[p]
    IN  /\ r.pc = "unlink"
        /\ IF UnlinkGone(fs, r.filename)
           THEN Step(p, Return(r, "InternalError"), fs)
           ELSE IF r.filename \in DOMAIN fs /\ UnlinkRaises(fs, r.filename)
           THEN Step(p, Return(r, "InternalError"), fs)
           ELSE Step(p, Return(r, "OK"), Without(fs, r.filename))

RaceStores ==
    { [n \in {} |-> Dir],
      [n \in {at} |-> File("c0", 0)],
      [n \in {ax} |-> File("cx", 0)],
      [n \in {at, ax} |-> IF n = at THEN File("c0", 0) ELSE File("cx", 0)] }

\* the renames requested: <<old name, new name>>
RenamePairs == {<<ax, at>>, <<at, lt>>, <<ax, lt>>}

RaceInit ==
    /\ cfg = Config({}, Unrestricted)
    /\ fs \in RaceStores
    /\ ext = NoOutside
    /\ fstime = 0
    /\ session = EmptySession
    /\ now = 0
    /\ last = [NoRequest EXCEPT !.pre_fs = fs]
    /\ nreq = 0
    /\ login_at = 0
    /\ hist = NoHistory
    /\ shown = NotShown(0)
    /\ inflight = NoneInFlight

RaceNext ==
    \/ \E p \in Procs : StartUpload(p, at)
    \/ \E p \in Procs : UploadIfExists(p)
    \/ \E p \in Procs : UploadWhile(p)
    \/ \E p \in Procs : UploadSave(p)
    \/ \E p \in Procs : UploadStat(p)
    \/ \E p \in Procs, pair \in RenamePairs :
          StartRename(p, pair[1], RenameBody(pair[2]))
    \/ \E p \in Procs : RenameOldExists(p)
    \/ \E p \in Procs : RenameNewExists(p)
    \/ \E p \in Procs : RenameResolve(p)
    \/ \E p \in Procs : RenameCall(p)
    \/ \E p \in Procs : RenameStat(p)
    \/ \E p \in Procs, raw \in {at, ax} : StartDelete(p, raw)
    \/ \E p \in Procs : DeleteExists(p)
    \/ \E p \in Procs : DeleteResolve(p)
    \/ \E p \in Procs : DeleteUnlink(p)

RaceSpec == RaceInit /\ [][RaceNext]_vars

-----------------------------------------------------------------------------
(* Vocabulary of the properties *)

\* the routes under @require_auth
EitherOps == {"list", "upload", "delete", "rename", "info"}

\* the routes that take <filename> from the URL
UrlOps == {"delete", "rename", "info", "download"}

\* the requests that reached the session check of require_auth or require_login
ViaSession ==
    /\ last.gate \notin {"NoRoute", "Forbidden"}
    /\ \/ last.op = "index"
       \/ last.op \in EitherOps /\ last.key \in {None, ""}

\* the session the request found was logged in
WasAuthenticated ==
    /\ "authenticated" \in DOMAIN last.pre_session
    /\ last.pre_session["authenticated"] = TRUE

\* the session the request found had been idle for longer than the lifetime
WasExpired ==
    /\ "last_activity" \in DOMAIN last.pre_session
    /\ last.at - last.pre_session["last_activity"] > cfg.session_lifetime

\* the request left the storage directory and the outside files as they were
StoreUnchanged == fs = last.pre_fs /\ ext = last.pre_ext

\* the handler's own steps (sanitizing, filesystem calls) among the calls made
HandlerSteps ==
    {i \in 1..Len(last.calls) : last.calls[i].call \in FsCalls \cup {"sanitize"}}

\* the view function was not entered
HandlerDidNotRun == HandlerSteps = {} /\ StoreUnchanged

HasSlash(raw) == \E i \in 1..Len(raw) : raw[i] = "/"

\* the sanitized name of the upload
UploadName == sanitize_filename(last.part.filename)

-----------------------------------------------------------------------------
(* C1 *)

\* C1: an upload whose sanitized name already exists leaves every entry of the
\* storage directory and every outside file as it was, and the name the response
\* returns is a new entry whose content is exactly the uploaded bytes.
C1_UploadNeverOverwrites ==
    (/\ last.op = "upload"
     /\ last.gate = "Allow"
     /\ last.part.present
     /\ UploadName # <<>>
     /\ UploadName \in DOMAIN last.pre_fs
     /\ Exists(last.pre_fs, last.pre_ext, UploadName))
    => /\ \A n \in DOMAIN last.pre_fs : n \in DOMAIN fs /\ fs[n] = last.pre_fs[n]
       /\ \A o \in OutPaths : last.pre_ext[o] # None => ext[o] = last.pre_ext[o]
       /\ last.status = "OK" =>
             /\ last.data.name \in DOMAIN fs
             /\ last.data.name # UploadName
             /\ Content(fs, ext, last.data.name) = last.part.content
             /\ last.data.of = last.part.content

\* an upload of a.t into a directory holding a.t and a_1.t, stored as a_2.t
C1_Witness ==
    /\ last.op = "upload"
    /\ last.status = "OK"
    /\ UploadName = at
    /\ {at, a1t} \subseteq DOMAIN last.pre_fs
    /\ last.data.name = <<"a", "_", "2", ".", "t">>
    /\ fs[last.data.name].kind = "file"
    /\ fs[last.data.name].data = last.part.content

-----------------------------------------------------------------------------
(* C2 *)

RenameOld == sanitize_filename(last.raw)

RenameNew == sanitize_filename(last.body.new_name)

\* a rename request that reached the handler with a JSON body and two names that
\* sanitize, whose new name exists in the storage directory
RenameToExisting ==
    /\ last.op = "rename"
    /\ last.gate = "Allow"
    /\ last.body.is_json
    /\ RenameOld # <<>>
    /\ RenameNew # <<>>
    /\ RenameNew \in DOMAIN last.pre_fs
    /\ Exists(last.pre_fs, last.pre_ext, RenameNew)

\* C2 as stated: a rename to an existing name answers Conflict (409) for every
\* old name and every store, and leaves the store unchanged.
C2_AlwaysConflict ==
    RenameToExisting => last.status = "Conflict" /\ last.code = 409 /\ StoreUnchanged

\* C2 amended: a rename to an existing name always fails and leaves the store
\* unchanged; it answers Conflict (409) when the old name exists and the new name
\* passes the extension check, NotFound (404) when the old name does not exist,
\* and DisallowedExtension (400) when the new name's extension is not allowed.
C2_RenameToExistingFails ==
    RenameToExisting =>
       /\ StoreUnchanged
       /\ last.status =
             IF cfg.allowed_extensions # Unrestricted
                /\ ToLower(Suffix(RenameNew)) \notin cfg.allowed_extensions
             THEN "DisallowedExtension"
             ELSE IF RenameOld \in DOMAIN last.pre_fs
                     /\ Exists(last.pre_fs, last.pre_ext, RenameOld)
             THEN "Conflict"
             ELSE "NotFound"
       /\ last.status = "Conflict" => last.code = 409

\* a rename of the uploaded a.x to the existing a.t, refused with 409
C2_Witness ==
    /\ RenameToExisting
    /\ RenameOld = ax
    /\ RenameNew = at
    /\ last.status = "Conflict"
    /\ ax \in DOMAIN fs
    /\ fs[at] = File("c0", 0)

-----------------------------------------------------------------------------
(* C3 *)

\* C3: a request that reaches the session check with a session that is
\* authenticated but idle for longer than session_lifetime is answered
\* SessionExpired, its handler does not run, and the session is left empty.
C3_ExpiredSessionCleared ==
    (ViaSession /\ WasAuthenticated /\ WasExpired)
    => /\ last.gate = "SessionExpired"
       /\ last.status = "SessionExpired"
       /\ HandlerDidNotRun
       /\ session = EmptySession
       /\ "authenticated" \notin DOMAIN session

\* an upload by an authenticated session idle for too long, refused and cleared
C3_Witness ==
    /\ ViaSession
    /\ last.op = "upload"
    /\ WasAuthenticated
    /\ WasExpired
    /\ last.status = "SessionExpired"
    /\ session = EmptySession

-----------------------------------------------------------------------------
(* C4 *)

\* the authentication checks among the calls made
AuthSteps == {i \in 1..Len(last.calls) : last.calls[i].call \in AuthCalls}

\* C4: with a non-empty IP whitelist every request from an address that is not
\* listed is answered Forbidden before any authentication check (API key,
\* session, password) runs, and changes neither the session nor the store.
C4_ForbiddenBeforeAuth ==
    (/\ last.op # "none"
     /\ cfg.ip_whitelist # {}
     /\ last.ip \notin cfg.ip_whitelist)
    => /\ last.status = "Forbidden"
       /\ AuthSteps = {}
       /\ session = last.pre_session
       /\ StoreUnchanged

-----------------------------------------------------------------------------
(* C7 *)

\* the request carried a configured API key
HadValidKey == last.key \in cfg.api_keys

\* the session the request found was authenticated and not expired
HadLiveSession == WasAuthenticated /\ ~WasExpired

\* C7: the storage directory changes only through an upload, delete or rename
\* that the decorator allowed; a request with neither a valid API key nor an
\* authenticated unexpired session leaves every file as it was.
C7_OnlyAuthorizedMutations ==
    /\ (last.op # "none" /\ ~StoreUnchanged) =>
          /\ last.op \in {"upload", "delete", "rename"}
          /\ last.gate = "Allow"
          /\ HadValidKey \/ HadLiveSession
    /\ (last.op # "none" /\ ~HadValidKey /\ ~HadLiveSession) => StoreUnchanged

\* a delete of the existing a.t without key and without login: refused, file kept
C7_Witness ==
    /\ last.op = "delete"
    /\ last.ip \in cfg.ip_whitelist
    /\ ~HadValidKey
    /\ ~HadLiveSession
    /\ last.status = "AuthRequired"
    /\ at \in DOMAIN last.pre_fs
    /\ at \in DOMAIN fs

-----------------------------------------------------------------------------
(* C8 *)

\* a request under @require_auth or @require_api_key that reached the key check
\* with an X-API-Key header on it
KeyPresented ==
    /\ last.op \in EitherOps \cup {"api_key_route"}
    /\ last.gate \notin {"NoRoute", "Forbidden"}
    /\ last.key # None

\* C8 as stated: a present header with any value, the empty string included,
\* that matches no configured key is answered InvalidApiKey and the handler does
\* not run.
C8_AnyPresentKey ==
    (KeyPresented /\ last.key \notin cfg.api_keys)
    => last.status = "InvalidApiKey" /\ HandlerDidNotRun

\* C8 amended: a present header with a non-empty value that matches no configured
\* key is answered InvalidApiKey (401) and the handler does not run, whatever the
\* session holds; a header with the empty value is treated as no header and is
\* never answered InvalidApiKey.
C8_NonEmptyInvalidKey ==
    /\ (KeyPresented /\ last.key # "" /\ last.key \notin cfg.api_keys)
       => /\ last.status = "InvalidApiKey"
          /\ last.code = 401
          /\ HandlerDidNotRun
          /\ session = last.pre_session
    /\ (KeyPresented /\ last.key = "")
       => /\ last.status # "InvalidApiKey"
          /\ last.op = "api_key_route" => last.status = "ApiKeyRequired"
          /\ last.op \in EitherOps =>
                (last.gate = "Allow") = (WasAuthenticated /\ ~WasExpired)

\* a delete with a wrong key by an authenticated, unexpired session: refused
C8_Witness ==
    /\ KeyPresented
    /\ last.op = "delete"
    /\ last.key = "bad"
    /\ HadLiveSession
    /\ last.status = "InvalidApiKey"
    /\ at \in DOMAIN fs

-----------------------------------------------------------------------------
(* C9 *)

\* a request under @require_auth from an allowed address with a configured key
ValidKeyRequest ==
    /\ last.op \in EitherOps
    /\ last.gate \notin {"NoRoute", "Forbidden"}
    /\ last.key \in cfg.api_keys

\* C9: under require_auth a request with a valid API key is allowed whatever the
\* session holds, and leaves the session exactly as it was.
C9_ValidKeyBypassesSession ==
    ValidKeyRequest => last.gate = "Allow" /\ session = last.pre_session

\* a request with a valid key while the session has expired: allowed, and the
\* expired session is still there
C9_Witness ==
    /\ ValidKeyRequest
    /\ WasAuthenticated
    /\ WasExpired
    /\ last.gate = "Allow"
    /\ session = last.pre_session
    /\ session # EmptySession

-----------------------------------------------------------------------------
(* C10 *)

\* C10: a request allowed through the session sets last_activity to its own
\* time; a denied request never sets it; and SessionExpired is answered only
\* when more than session_lifetime has passed since last_activity was set, which
\* is never before the login.
C10_SlidingWindow ==
    /\ (ViaSession /\ last.gate = "Allow")
       => /\ "last_activity" \in DOMAIN session
          /\ session["last_activity"] = last.at
    /\ (last.op # "none" /\ last.gate # "Allow")
       => \/ session = last.pre_session
          \/ session = EmptySession
    /\ last.status = "SessionExpired" => WasExpired
    /\ "last_activity" \in DOMAIN session => session["last_activity"] >= login_at

\* a request allowed through a session whose login is older than the lifetime
C10_Witness ==
    /\ ViaSession
    /\ last.gate = "Allow"
    /\ last.at - login_at > cfg.session_lifetime
    /\ session["last_activity"] = last.at

-----------------------------------------------------------------------------
(* C5 *)

\* the routes that take a filename
NameOps == {"upload", "delete", "rename", "info", "download"}

\* the filesystem calls among the calls made
FsSteps == {i \in 1..Len(last.calls) : last.calls[i].call \in FsCalls}

\* a name with no directory part: not empty, no "/", neither "." nor ".."
Bare(name) ==
    /\ name # <<>>
    /\ ~HasSlash(name)
    /\ name \notin {<<".">>, <<".", ".">>}

\* a filename with "/" in it was given: in the URL, as the uploaded file's name,
\* or as the new name of a rename
SlashGiven ==
    /\ last.op \in NameOps
    /\ \/ HasSlash(last.raw)
       \/ last.op = "rename" /\ HasSlash(last.body.new_name)

-----------------------------------------------------------------------------
(* C6 *)

\* the calls of the request that read, write, remove or move a path
ActingSteps == {i \in 1..Len(last.calls) : last.calls[i].call \in ActingCalls}

\* C6: whatever a request reads, writes, unlinks or renames lies inside the
\* storage directory; a name that leads elsewhere is refused with PathTraversal.
C6_ActsOnlyInside ==
    last.op \in NameOps =>
       \A i \in ActingSteps : last.calls[i].loc = "in"

-----------------------------------------------------------------------------
(* C11 *)

\* the login request carried a JSON body with the configured password
PasswordGiven == last.body.is_json /\ last.body.password = AdminPassword

\* C11: a login with the configured password answers 200 and leaves the session
\* holding exactly authenticated = TRUE and last_activity = the time of the
\* request, nothing of the session it found; a login with another password (401)
\* or without a JSON body (400) leaves the session exactly as it found it,
\* empty, authenticated or expired.
C11_LoginResetsOrKeeps ==
    last.op = "login" =>
       /\ PasswordGiven =>
             /\ last.status = "OK"
             /\ DOMAIN session = {"authenticated", "last_activity"}
             /\ session["authenticated"] = TRUE
             /\ session["last_activity"] = last.at
       /\ ~PasswordGiven =>
             /\ last.status = IF last.body.is_json THEN "InvalidPassword"
                                                   ELSE "BadRequest"
             /\ session = last.pre_session

\* a login with the right password over a session that had expired
C11_Witness ==
    /\ last.op = "login"
    /\ PasswordGiven
    /\ WasAuthenticated
    /\ WasExpired
    /\ last.status = "OK"
    /\ session["last_activity"] = last.at
    /\ session # last.pre_session

-----------------------------------------------------------------------------
(* C12 *)

\* the sanitized name of the URL
UrlName == sanitize_filename(last.raw)

\* the URL names a regular file that lies in the storage directory itself
NamesStoredFile ==
    /\ Routed(last.raw)
    /\ UrlName # <<>>
    /\ UrlName \in DOMAIN last.pre_fs
    /\ last.pre_fs[UrlName].kind = "file"

\* C12: a download answers either the file or NotFound (404), never 400 or
\* PathTraversal.  It answers NotFound for every name that does not sanitize,
\* names no existing file or leads outside the storage directory, and every
\* such answer is the same response (404, no data, no content), so a missing
\* file and a traversal attempt cannot be told apart; the file's content is
\* sent only for a regular file inside the storage directory.
C12_DownloadOnlyNotFound ==
    last.op = "download" =>
       /\ last.status \in {"OK", "NotFound"}
       /\ last.status = "NotFound" =>
             /\ last.code = 404
             /\ last.sent = None
             /\ last.data = NoData
       /\ ~NamesStoredFile => last.status = "NotFound"
       /\ NamesStoredFile =>
             /\ last.status = "OK"
             /\ last.sent = last.pre_fs[UrlName].data
       /\ StoreUnchanged

\* a download of l.t, a link to an existing file outside the directory: the path
\* resolved outside, and the answer is the 404 of a missing file
C12_Witness ==
    /\ last.op = "download"
    /\ UrlName = lt
    /\ lt \in DOMAIN last.pre_fs
    /\ last.pre_fs[lt].kind = "link"
    /\ last.pre_ext[last.pre_fs[lt].data] # None
    /\ last.calls # <<>>
    /\ last.calls[Len(last.calls)] = Ev("resolve", lt, "out")
    /\ last.status = "NotFound"
    /\ last.code = 404
    /\ last.sent = None

-----------------------------------------------------------------------------
(* C13 *)

\* a delete request that reached the handler
DeleteHandled == last.op = "delete" /\ last.gate = "Allow"

\* the entry the URL names, as the directory held it before the request
Named == last.pre_fs[UrlName]

\* every entry but the named one, and every outside file, is as it was
OthersUnchanged ==
    /\ DOMAIN fs = DOMAIN last.pre_fs \ {UrlName}
    /\ \A n \in DOMAIN fs : fs[n] = last.pre_fs[n]
    /\ ext = last.pre_ext

\* C13 as stated: the outcome of a delete is InvalidFilename when the name
\* sanitizes to empty, PathTraversal when the path resolves outside the storage
\* directory, NotFound when the name is absent, and success otherwise; success
\* removes the named entry alone, a failure changes nothing.
C13_DeleteOutcomes ==
    DeleteHandled =>
       /\ last.status =
             IF UrlName = <<>> THEN "InvalidFilename"
             ELSE IF UrlName \in DOMAIN last.pre_fs /\ Named.kind = "link"
             THEN "PathTraversal"
             ELSE IF UrlName \notin DOMAIN last.pre_fs THEN "NotFound"
             ELSE "OK"
       /\ last.status = "OK" => OthersUnchanged
       /\ last.status # "OK" => StoreUnchanged

\* C13 amended: the outcome of a delete is InvalidFilename when the name
\* sanitizes to empty; NotFound when the name does not exist, a link whose target
\* is missing included; PathTraversal when it exists and resolves outside the
\* storage directory; InternalError when it is a directory, which unlink
\* refuses; and success otherwise.  Success removes the named entry alone, every
\* failure leaves the store unchanged.
C13_DeleteOutcomesByExistence ==
    DeleteHandled =>
       /\ last.status =
             IF UrlName = <<>> THEN "InvalidFilename"
             ELSE IF UrlName \notin DOMAIN last.pre_fs THEN "NotFound"
             ELSE IF Named.kind = "link" /\ last.pre_ext[Named.data] = None
             THEN "NotFound"
             ELSE IF Named.kind = "link" THEN "PathTraversal"
             ELSE IF Named.kind = "dir" THEN "InternalError"
             ELSE "OK"
       /\ last.status = "OK" => OthersUnchanged
       /\ last.status # "OK" => StoreUnchanged

\* a delete of a.t from a directory that also holds a_1.t: a.t is gone, a_1.t kept
C13_Witness ==
    /\ DeleteHandled
    /\ UrlName = at
    /\ {at, a1t} \subseteq DOMAIN last.pre_fs
    /\ last.status = "OK"
    /\ at \notin DOMAIN fs
    /\ fs[a1t] = last.pre_fs[a1t]

-----------------------------------------------------------------------------
(* C14 *)

\* a rename request that reached the handler with a JSON body and two names
\* that sanitize, while ALLOWED_EXTENSIONS is a list
RestrictedRename ==
    /\ last.op = "rename"
    /\ last.gate = "Allow"
    /\ last.body.is_json
    /\ RenameOld # <<>>
    /\ RenameNew # <<>>
    /\ cfg.allowed_extensions # Unrestricted

\* the lowercase extension of the name is in ALLOWED_EXTENSIONS
ExtAllowed(name) == ToLower(Suffix(name)) \in cfg.allowed_extensions

\* C14 as stated: with a restricted list a rename is rejected, and the store is
\* unchanged, when the lowercase extension of the sanitized old name or of the
\* sanitized new name is not allowed.
C14_BothNamesChecked ==
    (RestrictedRename /\ (~ExtAllowed(RenameOld) \/ ~ExtAllowed(RenameNew)))
    => last.status # "OK" /\ StoreUnchanged

\* C14 amended: rename sanitizes both names and checks the extension of the new
\* name only.  With a restricted list a rename is rejected with
\* DisallowedExtension, before any filesystem call and with the store unchanged,
\* exactly when the lowercase extension of the sanitized new name is not
\* allowed; the extension of the old name is never a reason to reject.
C14_NewNameChecked ==
    RestrictedRename =>
       /\ ~ExtAllowed(RenameNew) =>
             /\ last.status = "DisallowedExtension"
             /\ FsSteps = {}
             /\ StoreUnchanged
       /\ ExtAllowed(RenameNew) => last.status # "DisallowedExtension"
       /\ last.status = "OK" => ExtAllowed(last.data.name)

\* with only .t allowed, the rename of the existing a.t to a.x is refused
C14_Witness ==
    /\ RestrictedRename
    /\ RenameOld = at
    /\ RenameNew = ax
    /\ at \in DOMAIN last.pre_fs
    /\ last.status = "DisallowedExtension"
    /\ fs = last.pre_fs

-----------------------------------------------------------------------------
(* C15 *)

\* an upload that reached the save: a file part with a name that sanitizes and
\* whose extension is allowed
UploadAccepted ==
    /\ last.op = "upload"
    /\ last.gate = "Allow"
    /\ last.part.present
    /\ last.part.filename # <<>>
    /\ UploadName # <<>>
    /\ cfg.allowed_extensions = Unrestricted \/ ExtAllowed(UploadName)

\* the name exists, as Path.exists() sees it, in the store the request found
Taken(name) ==
    /\ name \in DOMAIN last.pre_fs
    /\ last.pre_fs[name].kind = "link" => last.pre_ext[last.pre_fs[name].data] # None

\* the sanitized name split at its last dot
LastDot(name) ==
    IF \E i \in 1..Len(name) : name[i] = "."
    THEN CHOOSE i \in 1..Len(name) :
            name[i] = "." /\ \A j \in (i + 1)..Len(name) : name[j] # "."
    ELSE Len(name) + 1

Suffixed(name, k) ==
    SubSeq(name, 1, LastDot(name) - 1) \o <<"_">> \o Decimal(k)
       \o SubSeq(name, LastDot(name), Len(name))

\* C15: an accepted upload succeeds whether or not its name is taken.  It is
\* stored under the sanitized name when that name is free, and otherwise under
\* base_k.ext for the smallest k >= 1 whose name is free; the response returns
\* that name, and the uploaded bytes are what the name reads back.
C15_SmallestFreeSuffix ==
    UploadAccepted =>
       /\ last.status = "OK"
       /\ ~Taken(UploadName) => last.data.name = UploadName
       /\ Taken(UploadName) =>
             \E k \in 1..(Cardinality(DOMAIN last.pre_fs) + 1) :
                /\ last.data.name = Suffixed(UploadName, k)
                /\ ~Taken(Suffixed(UploadName, k))
                /\ \A j \in 1..(k - 1) : Taken(Suffixed(UploadName, j))
       /\ last.data.name \in DOMAIN fs
       /\ Content(fs, ext, last.data.name) = last.part.content

\* the second upload of a.t into a directory without a_1.t is stored as a_1.t
C15_Witness ==
    /\ UploadAccepted
    /\ UploadName = at
    /\ at \in DOMAIN last.pre_fs
    /\ a1t \notin DOMAIN last.pre_fs
    /\ last.status = "OK"
    /\ last.data.name = a1t
    /\ fs[a1t].kind = "file"
    /\ fs[a1t].data = last.part.content
    /\ fs[at] = last.pre_fs[at]

-----------------------------------------------------------------------------
(* C18 *)

\* C18: logout and timeout leave the session empty, and from then until the next
\* successful login every request that relies on the session is answered
\* AuthRequired and leaves the session empty; between two logins SessionExpired
\* is answered at most once.  (now' = now: a request is served, not a clock tick.)
C18_ClearedStaysDenied ==
    [][now' = now =>
         /\ (last'.op = "logout" \/ last'.status = "SessionExpired")
            => session' = EmptySession /\ hist'.cleared
         /\ (hist.cleared /\ ViaSession')
            => /\ last'.status = "AuthRequired"
               /\ last'.gate = "AuthRequired"
               /\ session' = EmptySession
               /\ hist'.cleared
         /\ (hist.cleared /\ ~hist'.cleared)
            => last'.op = "login" /\ last'.status = "OK"
         /\ hist'.expired <= 1]_vars

\* a request sent with the session that was answered SessionExpired earlier: it
\* is answered AuthRequired
C18_Witness ==
    /\ ViaSession
    /\ last.op = "list"
    /\ hist.cleared
    /\ hist.expired = 1
    /\ last.pre_session = EmptySession
    /\ last.status = "AuthRequired"
    /\ session = EmptySession

-----------------------------------------------------------------------------
(* C19 *)

\* the regular files directly inside the storage directory
RegularFiles == {n \in DOMAIN last.pre_fs : last.pre_fs[n].kind = "file"}

\* the names of the records of the listing
ListedNames == {last.files[i].name : i \in DOMAIN last.files}

\* C19: a listing returns one record for each regular file directly inside the
\* storage directory and none for a directory or a link, total is the number of
\* records, the records are in the order of their modification times, newest
\* first, and the store is unchanged.
C19_ListsRegularFilesNewestFirst ==
    (last.op = "list" /\ last.gate = "Allow") =>
       /\ last.status = "OK"
       /\ ListedNames = RegularFiles
       /\ Len(last.files) = Cardinality(RegularFiles)
       /\ last.total = Len(last.files)
       /\ \A i, j \in DOMAIN last.files :
             (i < j /\ {last.files[i].name, last.files[j].name} \subseteq RegularFiles)
             => last.pre_fs[last.files[i].name].mtime
                   >= last.pre_fs[last.files[j].name].mtime
       /\ StoreUnchanged

-----------------------------------------------------------------------------
(* C20 *)

\* the age of the formatted timestamp, in whole seconds
Age == now - shown.dt

\* "N unit ago", the unit in the plural unless N = 1
Phrase(n, singular, plural) ==
    IF n = 1 THEN "1 " \o singular \o " ago"
    ELSE ToString(n) \o " " \o plural \o " ago"

\* C20: an age below 60 s reads "just now"; below an hour, the whole minutes;
\* below a day, the whole hours; below 7 days, the whole days; below 30 days,
\* the whole weeks; from 30 days on, the date of the timestamp.  The number is
\* at least 1 in every bracket and the unit is singular exactly for 1.
C20_RelativeTimeBrackets ==
    shown.text # None =>
       /\ Age < 60 => shown.text = "just now"
       /\ (60 <= Age /\ Age < 3600)
          => /\ Age \div 60 >= 1
             /\ shown.text = Phrase(Age \div 60, "minute", "minutes")
       /\ (3600 <= Age /\ Age < 86400)
          => /\ Age \div 3600 >= 1
             /\ shown.text = Phrase(Age \div 3600, "hour", "hours")
       /\ (86400 <= Age /\ Age < 604800)
          => /\ Age \div 86400 >= 1
             /\ shown.text = Phrase(Age \div 86400, "day", "days")
       /\ (604800 <= Age /\ Age < 2592000)
          => /\ Age \div 604800 >= 1
             /\ shown.text = Phrase(Age \div 604800, "week", "weeks")
       /\ Age >= 2592000 => shown.text = StrfDate(shown.dt)

\* a timestamp exactly one hour old reads "1 hour ago", not "60 minutes ago"
C20_Witness ==
    /\ Age = 3600
    /\ shown.text = "1 hour ago"

-----------------------------------------------------------------------------
(* C16: upload's choice of a free name is check-then-act *)

\* request p is an upload that has written its file
Saved(p) == inflight[p].op = "upload" /\ inflight[p].wrote # <<>>

\* request p is an upload that was answered with success
Acknowledged(p) == Saved(p) /\ inflight[p].pc = "done" /\ inflight[p].status = "OK"

\* some stored file holds this content
Kept(content) == \E n \in DOMAIN fs : fs[n].kind = "file" /\ fs[n].data = content

\* C16: every upload writes to a name it saw free when it probed, so a file
\* it replaces was created by the other request after that probe; when the
\* two uploads are both acknowledged under one final name, the stored file
\* holds the content of one of them and the content of the other is in no
\* file, and under two different names neither replaced anything.
C16_UploadCheckThenAct ==
    /\ \A p \in Procs :
          Saved(p) =>
            /\ inflight[p].free_seen
            /\ inflight[p].lost # None =>
                 \E q \in Procs \ {p} : inflight[q].wrote = inflight[p].filename
    /\ \A p \in Procs : \A q \in Procs \ {p} :
          (Acknowledged(p) /\ Acknowledged(q)) =>
            IF inflight[p].filename = inflight[q].filename
            THEN /\ inflight[p].filename \in DOMAIN fs
                 /\ fs[inflight[p].filename].data \in {ContentOf(p), ContentOf(q)}
                 /\ ~(Kept(ContentOf(p)) /\ Kept(ContentOf(q)))
                 /\ (inflight[p].lost = ContentOf(q)) # (inflight[q].lost = ContentOf(p))
            ELSE inflight[p].lost = None /\ inflight[q].lost = None

\* both uploads of a.t chose a_1.t and were acknowledged; the first content is gone
C16_Witness ==
    /\ Acknowledged(1) /\ Acknowledged(2)
    /\ inflight[1].filename = Candidate(Stem(at), Suffix(at), 1)
    /\ inflight[2].filename = inflight[1].filename
    /\ inflight[2].lost = ContentOf(1)
    /\ fs[inflight[1].filename].data = ContentOf(2)
    /\ ~Kept(ContentOf(1))

-----------------------------------------------------------------------------
(* C17: rename's conflict detection is check-then-act *)

\* request p is a rename that has made its rename call
Moved(p) == inflight[p].op = "rename" /\ inflight[p].wrote # <<>>

\* request q, an upload or a rename, created this name
Created(q, name) ==
    /\ inflight[q].op \in {"upload", "rename"}
    /\ inflight[q].wrote = name

\* C17: every rename moves onto a name it saw absent at its check, so a file
\* it replaces was created by the other request, an upload or a rename,
\* between the check and the rename call; such a rename is still answered
\* with success.
C17_RenameCheckThenAct ==
    \A p \in Procs :
      Moved(p) =>
        /\ inflight[p].free_seen
        /\ inflight[p].lost # None =>
             /\ \E q \in Procs \ {p} : Created(q, inflight[p].new)
             /\ inflight[p].pc = "done" => inflight[p].status = "OK"

\* the rename of a.x to a.t replaced the file an acknowledged upload had just stored
C17_Witness ==
    /\ Moved(1)
    /\ inflight[1].pc = "done" /\ inflight[1].status = "OK"
    /\ inflight[1].filename = ax /\ inflight[1].new = at
    /\ Acknowledged(2) /\ inflight[2].filename = at
    /\ inflight[1].lost = ContentOf(2)
    /\ ~Kept(ContentOf(2))

\* the rename of a.x to l.t replaced the file another rename had just moved there
C17_RenamedOverRename ==
    /\ Moved(1) /\ Moved(2)
    /\ inflight[1].status = "OK" /\ inflight[2].status = "OK"
    /\ inflight[1].new = lt /\ inflight[2].new = lt
    /\ inflight[1].lost = "c0"
    /\ ~Kept("c0")

-----------------------------------------------------------------------------
(* C21: a rename handled alone is all-or-nothing *)

\* a rename request that the decorator let through to the handler
RenameHandled == last.op = "rename" /\ last.gate = "Allow"

\* the names of f that Path.exists() finds
Present(f, e) == {n \in DOMAIN f : Exists(f, e, n)}

\* C21: a rename handled with no other request in between either succeeds,
\* and then the old name is absent, the new name holds the very entry the old
\* name held, every other entry and every outside file is as before and as
\* many names exist as before (the directory has as many entries as before
\* unless the new name was a link whose target is missing, which the rename
\* replaces); or it fails, and then the storage directory and the outside
\* files are exactly as before the request.
C21_RenameAllOrNothing ==
    RenameHandled =>
      IF last.status = "OK"
      THEN /\ RenameOld \in DOMAIN last.pre_fs
           /\ RenameOld \notin DOMAIN fs
           /\ RenameNew \in DOMAIN fs
           /\ fs[RenameNew] = last.pre_fs[RenameOld]
           /\ \A n \in (DOMAIN fs \cup DOMAIN last.pre_fs) \ {RenameOld, RenameNew} :
                 /\ n \in DOMAIN fs
                 /\ n \in DOMAIN last.pre_fs
                 /\ fs[n] = last.pre_fs[n]
           /\ ext = last.pre_ext
           /\ Cardinality(Present(fs, ext))
                = Cardinality(Present(last.pre_fs, last.pre_ext))
           /\ Cardinality(DOMAIN fs) =
                IF RenameNew \in DOMAIN last.pre_fs
                THEN Cardinality(DOMAIN last.pre_fs) - 1
                ELSE Cardinality(DOMAIN last.pre_fs)
           /\ RenameNew \in DOMAIN last.pre_fs =>
                /\ last.pre_fs[RenameNew].kind = "link"
                /\ ~Exists(last.pre_fs, last.pre_ext, RenameNew)
      ELSE /\ last.status \in {"BadRequest", "InvalidFilename", "DisallowedExtension",
                               "NotFound", "Conflict", "PathTraversal", "InternalError"}
           /\ StoreUnchanged

\* a.t was renamed to a.x while a_1.t stayed as it was
C21_Witness ==
    /\ RenameHandled
    /\ last.status = "OK"
    /\ RenameOld = at
    /\ RenameNew = ax
    /\ at \notin DOMAIN fs
    /\ fs[ax].data = "c0"
    /\ a1t \in DOMAIN fs
    /\ fs[a1t] = last.pre_fs[a1t]

\* a rename refused with Conflict left both files in place
C21_RefusedWitness ==
    /\ RenameHandled
    /\ last.status = "Conflict"
    /\ StoreUnchanged
    /\ Cardinality(DOMAIN fs) = 2

-----------------------------------------------------------------------------
(* C22: an authenticated session always has its last activity recorded *)

\* session.get('last_activity') is set: the key is there, and its value is the
\* time of a login or of an allowed request, never later than now
ActivitySet(s, t) ==
    /\ "last_activity" \in DOMAIN s
    /\ s["last_activity"] \in 0..t

\* C22: in every state reached through logins, logouts and allowed or denied
\* requests, a session with authenticated = TRUE has last_activity set; so
\* every request that came to the session check with an authenticated session
\* had the idle time compared: it was refused as SessionExpired exactly when
\* the session had been idle for longer than the lifetime, and allowed
\* otherwise.
C22_AuthenticatedHasActivity ==
    /\ Authenticated(session) => ActivitySet(session, now)
    /\ (ViaSession /\ WasAuthenticated) =>
          /\ ActivitySet(last.pre_session, last.at)
          /\ last.gate = IF WasExpired THEN "SessionExpired" ELSE "Allow"

\* a session logged in earlier came to the session check, was compared and
\* refreshed
C22_Witness ==
    /\ ViaSession
    /\ WasAuthenticated
    /\ last.gate = "Allow"
    /\ last.pre_session["last_activity"] < last.at
    /\ Authenticated(session)
    /\ session["last_activity"] = last.at

-----------------------------------------------------------------------------
(* C23: with a restricted list, stored names keep allowed extensions *)

\* ALLOWED_EXTENSIONS is a list
Restricted == cfg.allowed_extensions # Unrestricted

\* every name in the directory f has a lowercase extension that is allowed
AllAllowed(f) == \A n \in DOMAIN f : ExtAllowed(n)

\* C23: with a restricted list, no request (upload, rename, delete or any
\* other) takes a storage directory in which every name has an allowed
\* lowercase extension to one in which some name has not; so from such a
\* directory every sequence of requests keeps every stored name allowed, the
\* names base_k.ext that upload makes up included.
C23_AllowedExtensionsKept ==
    [][(Restricted /\ AllAllowed(fs)) => AllAllowed(fs')]_vars

\* with only .t allowed, an upload of a.t next to a.t was stored as a_1.t
C23_Witness ==
    /\ Restricted
    /\ last.op = "upload"
    /\ last.status = "OK"
    /\ UploadName = at
    /\ at \in DOMAIN last.pre_fs
    /\ AllAllowed(last.pre_fs)
    /\ a1t \in DOMAIN fs \ DOMAIN last.pre_fs
    /\ AllAllowed(fs)

\* with only .t allowed, a.t was renamed to a.T, whose lowercase extension is .t
C23_RenamedWitness ==
    /\ Restricted
    /\ RenameHandled
    /\ last.status = "OK"
    /\ RenameNew = aT
    /\ AllAllowed(last.pre_fs)
    /\ AllAllowed(fs)

-----------------------------------------------------------------------------
(* C24: two deletes of one existing file *)

\* both requests are deletes of this name, which was there when they arrived
BothDelete(name) ==
    /\ name \in DOMAIN last.pre_fs
    /\ \A p \in Procs : inflight[p].op = "delete" /\ inflight[p].filename = name

\* the requests that have been answered
Answered == {p \in Procs : inflight[p].pc = "done"}

\* the requests answered with success
Succeeded == {p \in Answered : inflight[p].status = "OK"}

\* C24: when both requests delete the same file, which existed, then however
\* their steps interleave at most one is answered with success and every
\* answer is success, NotFound or the internal error; once both are answered
\* exactly one succeeded and the file is absent; and at every moment every
\* other file is as it was and no file has appeared.
C24_TwoDeletes ==
    \A name \in {at, ax} :
      BothDelete(name) =>
        /\ Cardinality(Succeeded) <= 1
        /\ \A p \in Answered :
              inflight[p].status \in {"OK", "NotFound", "InternalError"}
        /\ Answered = Procs =>
              /\ Cardinality(Succeeded) = 1
              /\ name \notin DOMAIN fs
        /\ Succeeded # {} => name \notin DOMAIN fs
        /\ DOMAIN fs \subseteq DOMAIN last.pre_fs
        /\ \A n \in DOMAIN last.pre_fs \ {name} :
              n \in DOMAIN fs /\ fs[n] = last.pre_fs[n]

\* both deletes of a.t saw it exist; the first removed it and the second got
\* the internal error, a.x staying as it was
C24_Witness ==
    /\ BothDelete(at)
    /\ Answered = Procs
    /\ inflight[1].status = "OK"
    /\ inflight[2].status = "InternalError"
    /\ at \notin DOMAIN fs
    /\ ax \in DOMAIN fs
    /\ fs[ax] = last.pre_fs[ax]

\* the second delete came to its existence test after the first had removed a.t
C24_NotFoundWitness ==
    /\ BothDelete(at)
    /\ Answered = Procs
    /\ inflight[1].status = "OK"
    /\ inflight[2].status = "NotFound"
    /\ at \notin DOMAIN fs

====
